---- MODULE Spec2Model ----
(***************************************************************************)
(* State-machine model of src/downloader.py (RoundcubeDownloader): the     *)
(* IMAP session, the folder tree, the message table, the selection and the *)
(* export batch.                                                           *)
(*                                                                         *)
(* Strings that the code splits at "/" (folder names, tree labels) are     *)
(* modelled as the sequence of their "/"-separated segments, so            *)
(* "A/B" is <<"A","B">> and "/" itself is <<"","">>.  Strings that the     *)
(* code filters character by character (subjects) are sequences of         *)
(* one-character strings.                                                  *)
(*                                                                         *)
(* The three workers (connect_imap, load_emails, download_emails) contain  *)
(* no suspension point once started (imaplib calls are blocking), so no    *)
(* other handler runs between their steps: every UI handler is guarded by  *)
(* pc = "idle".  A user event that arrives meanwhile waits in the          *)
(* application's queue (pending).  Worker-local variables are reset when   *)
(* the worker returns (WorkerDone).                                        *)
(***************************************************************************)
EXTENDS Integers, Sequences, FiniteSets, TLC

\* ------------------------------------------------------------------ bounds

\* messages held by every server folder (UIDs 1..MaxMsgs)
MaxMsgs == 2
\* transports opened in one run (handles 1..MaxConn)
MaxConn == 2
\* folder-descriptor lines in one LIST response
MaxLines == 3

\* ------------------------------------------------------------ environment

None == "None"

\* An optional value is <<>> (absent) or <<v>>; no folder is the empty path.
Absent == <<>>
Some(v) == <<v>>
NoFolder == <<>>

\* Results of a call that either returns or raises.
Results == {"ok", "raise"}

\* The four export formats of the format checkboxes.
Formats == {"EML", "MBOX", "JSON", "CSV"}

\* Folder paths the server holds in the session specifications.
ServerFolders == {<<"A">>, <<"B">>, <<"A", "B">>}

\* Label of the tree root (Tree("Folders")).
RootLabel == <<"Folders">>

UIDs == 1 .. MaxMsgs

\* Header fields of the message with UID u, each optional.
ServerSubject(u) ==
    IF u = 1 THEN Some(<<"H", "i">>)
    ELSE IF u = 2 THEN Some(<<"R", "e", ":", " ", "x">>)
    ELSE Absent

ServerFrom(u) == IF u = 2 THEN Absent ELSE Some(<<"a", "@", "b">>)

ServerDate(u) == IF u = 1 THEN Some(<<"M", "o", "n">>) ELSE Absent

\* The token after "RFC822.SIZE " in the fetch prefix, as its characters:
\* non-numeric for UID 2.
ServerSizeToken(u) == IF u = 2 THEN <<"1", "k">> ELSE <<"2", "0", "4", "8">>

\* A LIST line is the sequence of its parts after split('"').
Quoted(path) == << <<"(attrs) ">>, <<"", "">>, <<" ">>, path, <<"">> >>

\* A line without any quoted field.
NoQuoteLine == << <<"* garbage">> >>

\* The LIST response of the session specifications.
SessionListing == << Quoted(<<"A">>), Quoted(<<"B">>), Quoted(<<"A", "B">>) >>

\* Paths of the folder-catalog specification.
TreePaths == {<<"A">>, <<"B">>, <<"A", "B">>}

TreeLines == {Quoted(p) : p \in TreePaths} \cup {NoQuoteLine}

RECURSIVE SeqsUpTo(_, _)
SeqsUpTo(S, n) ==
    IF n = 0 THEN {<<>>}
    ELSE LET shorter == SeqsUpTo(S, n - 1)
         IN  shorter \cup {Append(s, x) : s \in {t \in shorter : Len(t) = n - 1}, x \in S}

TreeListings == SeqsUpTo(TreeLines, MaxLines)

\* ------------------------------------------------------------------ state

VARIABLES
    current_account,     \* self.current_account
    current_connection,  \* self.current_connection: 0 is None, else a handle
    conn_state,          \* per handle: "unborn" | "open" | "auth" | "closed"
    session_folder,      \* folder selected on the current connection, or None
    tree,                \* #folder-tree: nodes below the root, in creation order
    emails,              \* self.emails
    table,               \* rows of #email-table
    selected_emails,     \* self.selected_emails
    picked,              \* history: the <<folder, uid>> pairs the user has selected
    pc,                  \* position of the running worker, or "idle"
    notes,               \* notifications raised by the running worker
    conn_log,            \* connect_imap: what the running connect did
    ld_folder,           \* load_emails: folder
    ld_idx,              \* load_emails: idx of the header loop
    ld_log,              \* load_emails: kinds of the fetch responses so far
    formats,             \* download_emails: formats
    exp_sel,             \* download_emails: selected_emails (the list)
    exp_idx,             \* download_emails: idx of the per-message loop
    exp_out,             \* download_emails: outcome of each first-pass message
    json_data,           \* download_emails: json_data
    csv_data,            \* download_emails: csv_data
    mbox_todo,           \* download_emails: folders of folder_emails still to write
    mbox_idx,            \* download_emails: position in the current folder's list
    mbox_open,           \* download_emails: folder of the open mbox, or None
    mbox_out,            \* download_emails: outcome of each second-pass message
    fetch_log,           \* history: raw fetches <<session folder, uid, pass>>
    files,               \* the destination directory: file name -> content
    preserve_structure,  \* #preserve-structure checkbox
    skip_existing,       \* #skip-existing checkbox
    modal,               \* the EmailPreviewModal on the screen, or Absent
    search_input,        \* value of #search-input
    search_field,        \* value of #search-field
    pending,             \* Tree.NodeSelected message not yet handled, or Absent
    last_select,         \* history: the last select() of the running operation
    call_log,            \* history: searches and fetches issued on the session
    eml_written,         \* history: the .eml files the running batch has written
    fault                \* unhandled exception that left a worker, or None

vars == << current_account, current_connection, conn_state, session_folder, tree,
           emails, table, selected_emails, picked, pc, notes, conn_log,
           ld_folder, ld_idx, ld_log, formats, exp_sel, exp_idx, exp_out,
           json_data, csv_data, mbox_todo, mbox_idx, mbox_open, mbox_out,
           fetch_log, files, preserve_structure, skip_existing, modal,
           search_input, search_field, pending, last_select, call_log,
           eml_written, fault >>

uiVars   == << preserve_structure, skip_existing, modal, search_input, search_field >>
callVars == << last_select, call_log, eml_written >>
connVars == << current_account, current_connection, conn_state, tree, conn_log >>
loadVars == << ld_folder, ld_idx, ld_log >>
expVars  == << formats, exp_sel, exp_idx, exp_out, json_data, csv_data,
               mbox_todo, mbox_idx, mbox_open, mbox_out, fetch_log >>

EmptyFn == [x \in {} |-> None]

\* No select() was issued yet.
NoSelect == <<>>

NoConnLog == [prior |-> 0, logout |-> None, opened |-> FALSE, login |-> None]

Init ==
    /\ current_account = None
    /\ current_connection = 0
    /\ conn_state = [h \in 1 .. MaxConn |-> "unborn"]
    /\ session_folder = NoFolder
    /\ tree = <<>>
    /\ emails = <<>>
    /\ table = <<>>
    /\ selected_emails = {}
    /\ picked = {}
    /\ pc = "idle"
    /\ notes = {}
    /\ conn_log = NoConnLog
    /\ ld_folder = NoFolder
    /\ ld_idx = 0
    /\ ld_log = <<>>
    /\ formats = {}
    /\ exp_sel = <<>>
    /\ exp_idx = 0
    /\ exp_out = <<>>
    /\ json_data = <<>>
    /\ csv_data = <<>>
    /\ mbox_todo = <<>>
    /\ mbox_idx = 0
    /\ mbox_open = NoFolder
    /\ mbox_out = <<>>
    /\ fetch_log = {}
    /\ files = EmptyFn
    /\ preserve_structure = TRUE
    /\ skip_existing = TRUE
    /\ modal = Absent
    /\ search_input = <<>>
    /\ search_field = "All"
    /\ pending = Absent
    /\ last_select = NoSelect
    /\ call_log = {}
    /\ eml_written = {}
    /\ fault = None

\* ------------------------------------------------------------ the session

\* The current connection is an authenticated, open session.
Usable == current_connection # 0 /\ conn_state[current_connection] = "auth"

\* Results a protocol call can have: on None (AttributeError) or on a
\* connection that is not authenticated (imaplib error) it can only raise.
CallResults(results) == IF Usable THEN results ELSE {"RAISE"}

\* Results of select(folder): the server refuses a folder it does not hold.
SelectResults(folder) ==
    CallResults(IF folder \in ServerFolders THEN {"OK", "NO", "RAISE"}
                ELSE {"NO", "RAISE"})

\* Mutant of StatusOk: the status a call returned is not looked at.
StatusOk_Ignored(status) == TRUE

\* if status == "OK" / if status != "OK": the guard on the status a
\* protocol call returned, before the next call is made.
StatusOk(status) == status = "OK"

\* The call returned a status (did not raise) and the guard on it passed.
Passed(status) == status # "RAISE" /\ StatusOk(status)

\* Handle of the next transport to be opened.
NewHandle == 1 + Cardinality({h \in 1 .. MaxConn : conn_state[h] # "unborn"})

\* --------------------------------------------------------- Folder Catalog

\* folder_name = parts[-2]
FolderName(parts) == parts[Len(parts) - 1]

\* One iteration of the loop over folders in load_folders: the node added
\* for the line, absent when the line is skipped.  A node records its
\* label, its parent (0 is the root, else an index in the node sequence)
\* and, as history, the path of the line that created it.
FolderNode(parts, folder_dict) ==
    IF parts = <<>> \/ Len(parts) < 3 THEN Absent
    ELSE LET folder_name == FolderName(parts)
         IN  IF Len(folder_name) > 1
             THEN LET parent_path == SubSeq(folder_name, 1, Len(folder_name) - 1)
                      folder_short_name == << folder_name[Len(folder_name)] >>
                  IN  IF parent_path \in DOMAIN folder_dict
                      THEN Some([label |-> folder_short_name,
                                 parent |-> folder_dict[parent_path],
                                 path |-> folder_name])
                      ELSE Some([label |-> folder_name, parent |-> 0,
                                 path |-> folder_name])
             ELSE Some([label |-> folder_name, parent |-> 0, path |-> folder_name])

RECURSIVE BuildTree(_, _, _, _)
BuildTree(folders, i, nodes, folder_dict) ==
    IF i > Len(folders) THEN nodes
    ELSE LET node == FolderNode(folders[i], folder_dict)
         IN  IF node = Absent THEN BuildTree(folders, i + 1, nodes, folder_dict)
             ELSE BuildTree(folders, i + 1, Append(nodes, node[1]),
                            (node[1].path :> (Len(nodes) + 1)) @@ folder_dict)

\* load_folders: the tree is cleared, then rebuilt when list() returns OK.
\* listR is [status, folders]: what list() returns, or status "RAISE".
LoadFolders(listR) ==
    IF listR.status = "OK" THEN BuildTree(listR.folders, 1, <<>>, EmptyFn)
    ELSE <<>>

\* ------------------------------------------------------------ connect_imap

\* connect_to_account + connect_imap.  logoutR, openR, loginR are "ok" or
\* "raise"; listR is the result of list().
ConnectToAccount(logoutR, openR, loginR, listR) ==
    /\ pc = "idle"
    /\ NewHandle <= MaxConn
    /\ current_account' = "acct"
    /\ LET prior     == current_connection
           loggedOut == prior = 0 \/ logoutR = "ok"
           opened    == loggedOut /\ openR = "ok"
           loggedIn  == opened /\ loginR = "ok"
           h         == NewHandle
           closed    == IF prior # 0 /\ logoutR = "ok"
                        THEN [conn_state EXCEPT ![prior] = "closed"]
                        ELSE conn_state
       IN  /\ current_connection' = IF opened THEN h ELSE prior
           /\ conn_state' = IF opened
                            THEN [closed EXCEPT ![h] = IF loggedIn THEN "auth" ELSE "open"]
                            ELSE closed
           /\ session_folder' = IF opened THEN NoFolder ELSE session_folder
           /\ tree' = IF loggedIn THEN LoadFolders(listR) ELSE tree
           /\ notes' = IF ~loggedIn THEN {<<"error", "Connection error">>}
                       ELSE {<<"info", "Connected">>} \cup
                            (IF listR.status = "RAISE"
                             THEN {<<"error", "Error loading folders">>} ELSE {})
           /\ conn_log' = [prior  |-> prior,
                           logout |-> IF prior = 0 THEN None ELSE logoutR,
                           opened |-> opened,
                           login  |-> IF opened THEN loginR ELSE None]
    /\ pc' = "connect_done"
    /\ UNCHANGED << emails, table, selected_emails, picked, fault, files >>
    /\ UNCHANGED uiVars
    /\ UNCHANGED pending
    /\ UNCHANGED callVars
    /\ UNCHANGED loadVars
    /\ UNCHANGED expVars

\* --------------------------------------------------------- Message Index

NoSubject == <<"N", "o", " ", "S", "u", "b", "j", "e", "c", "t">>
Unknown == <<"U", "n", "k", "n", "o", "w", "n">>

\* msg.get(name, default)
Get(header, default) == IF header = Absent THEN default ELSE header[1]

Digits == <<"0", "1", "2", "3", "4", "5", "6", "7", "8", "9">>

\* str.isdigit()
IsDigit(s) == s # <<>> /\ \A i \in 1 .. Len(s) : \E d \in 1 .. 10 : Digits[d] = s[i]

\* int(s) of a digit string
RECURSIVE IntOf(_)
IntOf(s) ==
    IF s = <<>> THEN 0
    ELSE 10 * IntOf(SubSeq(s, 1, Len(s) - 1))
         + (CHOOSE d \in 1 .. 10 : Digits[d] = s[Len(s)]) - 1

\* int(size_match) if size_match.isdigit() else 0
ParseSize(size_match) == IF IsDigit(size_match) THEN IntOf(size_match) ELSE 0

\* The structured prefix of the header-fetch response for message id, as the
\* tokens the code extracts from it; kind "noUID" is a prefix without the
\* "UID " marker.
FetchPrefix(id, kind) ==
    [uid |-> IF kind = "noUID" THEN Absent ELSE Some(id), size |-> ServerSizeToken(id)]

\* uid_data.split("UID ")[1] raises IndexError when the marker is absent.
ParseRaises(prefix) == prefix.uid = Absent

\* EmailMessage(...) built from one response part.
NewEmailMessage(prefix, id, folder) ==
    [uid     |-> prefix.uid[1],
     subject |-> Get(ServerSubject(id), NoSubject),
     sender  |-> Get(ServerFrom(id), Unknown),
     date    |-> Get(ServerDate(id), Unknown),
     size    |-> ParseSize(prefix.size),
     folder  |-> folder,
     raw_email |-> Absent]

\* Mutant of ClearedEmails: the table is not cleared before the header loop.
ClearedEmails_Kept(es) == es

\* self.emails.clear()
ClearedEmails(es) == <<>>

\* update_email_table: one row per message of self.emails.  A row shows the
\* mark and the folder; uid is history (the row does not display it).
Row(e, sel) == [uid |-> e.uid, folder |-> e.folder, mark |-> e.uid \in sel]

UpdateEmailTable(es, sel) == [i \in 1 .. Len(es) |-> Row(es[i], sel)]

\* Number of ids search() returns for a selected folder.
Total == MaxMsgs

\* load_emails up to the header loop: select, search, clear.
LoadEmails(folder, selR, searchR) ==
    /\ selR # "OK" => searchR = "OK"
    /\ ld_folder' = folder
    /\ ld_idx' = 0
    /\ ld_log' = <<>>
    /\ session_folder' = IF selR = "OK" THEN folder ELSE session_folder
    /\ last_select' = <<folder, selR>>
    /\ call_log' = IF Passed(selR) THEN call_log \cup {<<"search", folder, last_select'>>}
                   ELSE call_log
    /\ UNCHANGED eml_written
    /\ emails' = IF Passed(selR) /\ Passed(searchR) THEN ClearedEmails(emails) ELSE emails
    /\ notes' = IF selR = "RAISE" \/ (Passed(selR) /\ searchR = "RAISE")
                THEN {<<"error", "Error loading emails">>}
                ELSE IF ~Passed(selR) THEN {<<"error", "Cannot select folder">>}
                ELSE {}
    /\ pc' = IF Passed(selR) /\ Passed(searchR) THEN "load_loop" ELSE "load_done"
    /\ UNCHANGED << table, selected_emails, picked, fault, files >>
    /\ UNCHANGED connVars
    /\ UNCHANGED uiVars
    /\ UNCHANGED expVars

NodeLabel(n) == IF n = 0 THEN RootLabel ELSE tree[n].label

\* A node of the tree is selected while a worker is running: the worker's
\* blocking calls keep the event loop, so the Tree.NodeSelected message
\* stays in the application's queue.
PostNodeSelected(n) ==
    /\ pc \notin {"idle", "crashed"}
    /\ pending = Absent
    /\ n \in 0 .. Len(tree)
    /\ pending' = Some(n)
    /\ UNCHANGED << emails, table, selected_emails, picked, pc, notes, fault, files,
                    session_folder >>
    /\ UNCHANGED connVars
    /\ UNCHANGED uiVars
    /\ UNCHANGED loadVars
    /\ UNCHANGED expVars
    /\ UNCHANGED callVars

\* folder_selected: a node of the tree (0 is the root) was selected; a
\* queued selection is handled before a new one.
FolderSelected(n, selR, searchR) ==
    /\ pc = "idle"
    /\ pending \in {Absent, Some(n)}
    /\ pending' = Absent
    /\ n \in 0 .. Len(tree)
    /\ current_connection # 0
    /\ selR \in SelectResults(NodeLabel(n))
    /\ searchR \in {"OK", "NO", "RAISE"}
    /\ LoadEmails(NodeLabel(n), selR, searchR)

\* action_refresh: reloads the folder of the cursor node.
ActionRefresh(n, selR, searchR) ==
    /\ pc = "idle"
    /\ UNCHANGED pending
    /\ n \in 0 .. Len(tree)
    /\ selR \in SelectResults(NodeLabel(n))
    /\ searchR \in {"OK", "NO", "RAISE"}
    /\ LoadEmails(NodeLabel(n), selR, searchR)

\* One iteration of the header loop of load_emails.  kind is the response:
\* "ok", "noUID", "NO" (status not OK) or "RAISE" (the fetch raised).
LoadFetch(kind) ==
    /\ pc = "load_loop"
    /\ ld_idx < Total
    /\ LET id     == ld_idx + 1
           prefix == FetchPrefix(id, kind)
           raised == kind = "RAISE" \/ (kind \in {"ok", "noUID"} /\ ParseRaises(prefix))
       IN  /\ emails' = IF kind \in {"ok", "noUID"} /\ ~raised
                        THEN Append(emails, NewEmailMessage(prefix, id, ld_folder))
                        ELSE emails
           /\ notes' = IF raised THEN notes \cup {<<"error", "Error loading emails">>}
                       ELSE notes
           /\ pc' = IF raised THEN "load_done" ELSE "load_loop"
    /\ ld_idx' = ld_idx + 1
    /\ ld_log' = Append(ld_log, kind)
    /\ call_log' = call_log \cup {<<"fetch", ld_folder, last_select>>}
    /\ UNCHANGED << ld_folder, session_folder, table, selected_emails, picked,
                    fault, files, last_select, eml_written >>
    /\ UNCHANGED connVars
    /\ UNCHANGED uiVars
    /\ UNCHANGED pending
    /\ UNCHANGED expVars

\* The end of load_emails after the header loop.
LoadFinish ==
    /\ pc = "load_loop"
    /\ ld_idx = Total
    /\ table' = UpdateEmailTable(emails, selected_emails)
    /\ notes' = notes \cup {<<"status", "Loaded", Len(emails)>>}
    /\ pc' = "load_done"
    /\ UNCHANGED << emails, session_folder, selected_emails, picked, fault, files >>
    /\ UNCHANGED connVars
    /\ UNCHANGED uiVars
    /\ UNCHANGED pending
    /\ UNCHANGED callVars
    /\ UNCHANGED loadVars
    /\ UNCHANGED expVars

\* -------------------------------------------------------------- Selection

\* email_row_selected: row_index is 0-based, the index of a row the table
\* displays; a row beyond self.emails is ignored.
EmailRowSelected(row_index) ==
    /\ pc = "idle"
    /\ row_index < Len(table)
    /\ 0 <= row_index /\ row_index < Len(emails)
    /\ LET email_msg == emails[row_index + 1]
       IN  /\ selected_emails' =
                 IF email_msg.uid \in selected_emails
                 THEN selected_emails \ {email_msg.uid}
                 ELSE selected_emails \cup {email_msg.uid}
           /\ picked' = IF email_msg.uid \in selected_emails
                        THEN picked \ {<<email_msg.folder, email_msg.uid>>}
                        ELSE picked \cup {<<email_msg.folder, email_msg.uid>>}
    /\ table' = UpdateEmailTable(emails, selected_emails')
    /\ UNCHANGED << emails, session_folder, pc, notes, fault, files >>
    /\ UNCHANGED connVars
    /\ UNCHANGED uiVars
    /\ UNCHANGED pending
    /\ UNCHANGED callVars
    /\ UNCHANGED loadVars
    /\ UNCHANGED expVars

\* Mutant of SelectedByAll: the UIDs of the loaded messages are added to
\* the selection.
SelectedByAll_Added(es, sel) == sel \cup {es[i].uid : i \in 1 .. Len(es)}

\* self.selected_emails = {email.uid for email in self.emails}
SelectedByAll(es, sel) == {es[i].uid : i \in 1 .. Len(es)}

\* select_all_emails
SelectAllEmails ==
    /\ pc = "idle"
    /\ selected_emails' = SelectedByAll(emails, selected_emails)
    /\ picked' = {<<emails[i].folder, emails[i].uid>> : i \in 1 .. Len(emails)}
    /\ table' = UpdateEmailTable(emails, selected_emails')
    /\ UNCHANGED << emails, session_folder, pc, notes, fault, files >>
    /\ UNCHANGED connVars
    /\ UNCHANGED uiVars
    /\ UNCHANGED pending
    /\ UNCHANGED callVars
    /\ UNCHANGED loadVars
    /\ UNCHANGED expVars

\* deselect_all_emails
DeselectAllEmails ==
    /\ pc = "idle"
    /\ selected_emails' = {}
    /\ picked' = {}
    /\ table' = UpdateEmailTable(emails, selected_emails')
    /\ UNCHANGED << emails, session_folder, pc, notes, fault, files >>
    /\ UNCHANGED connVars
    /\ UNCHANGED uiVars
    /\ UNCHANGED pending
    /\ UNCHANGED callVars
    /\ UNCHANGED loadVars
    /\ UNCHANGED expVars

\* ----------------------------------------------------------------- search

\* The options of #search-field.
SearchFields == {"All", "Subject", "From", "To", "Body"}

UpperCase == <<"A", "B", "C", "D", "E", "F", "G", "H", "I", "J", "K", "L", "M",
               "N", "O", "P", "Q", "R", "S", "T", "U", "V", "W", "X", "Y", "Z">>
LowerCase == <<"a", "b", "c", "d", "e", "f", "g", "h", "i", "j", "k", "l", "m",
               "n", "o", "p", "q", "r", "s", "t", "u", "v", "w", "x", "y", "z">>

\* str.lower()
ToLower(c) ==
    IF \E i \in 1 .. Len(UpperCase) : UpperCase[i] = c
    THEN LowerCase[CHOOSE i \in 1 .. Len(UpperCase) : UpperCase[i] = c]
    ELSE c

Lower(str) == [i \in 1 .. Len(str) |-> ToLower(str[i])]

\* sub in str
Contains(sub, str) ==
    \E i \in 1 .. Len(str) + 1 :
        /\ i + Len(sub) - 1 <= Len(str)
        /\ SubSeq(str, i, i + Len(sub) - 1) = sub

\* Mutant of SearchLower: the term is compared as it was typed.
SearchLower_AsTyped(search_term) == search_term

\* search_lower = search_term.lower()
SearchLower(search_term) == Lower(search_term)

\* The match of one message in the loop of search_emails.
Match(email_msg, search_lower, field) ==
    IF field = "All"
    THEN Contains(search_lower, Lower(email_msg.subject))
         \/ Contains(search_lower, Lower(email_msg.sender))
    ELSE IF field = "Subject" THEN Contains(search_lower, Lower(email_msg.subject))
    ELSE IF field = "From" THEN Contains(search_lower, Lower(email_msg.sender))
    ELSE FALSE

\* filtered_emails
FilteredEmails(es, search_term, field) ==
    SelectSeq(es, LAMBDA e : Match(e, SearchLower(search_term), field))

\* Mutant of EmailsAfterSearch: the filter result replaces self.emails.
EmailsAfterSearch_InPlace(es, filtered) == filtered

\* search_emails appends the matches to a new list; self.emails is not
\* assigned.
EmailsAfterSearch(es, filtered) == es

\* search_emails: the Search button, with search_term typed in
\* #search-input and field chosen in #search-field.
SearchEmails(search_term, field) ==
    /\ pc = "idle"
    /\ field \in SearchFields
    /\ search_input' = search_term
    /\ search_field' = field
    /\ IF search_term = <<>>
       THEN /\ table' = UpdateEmailTable(emails, selected_emails)
            /\ UNCHANGED << emails, notes >>
       ELSE LET filtered_emails == FilteredEmails(emails, search_term, field)
            IN  /\ table' = UpdateEmailTable(filtered_emails, selected_emails)
                /\ emails' = EmailsAfterSearch(emails, filtered_emails)
                /\ notes' = {<<"status", "Found", Len(filtered_emails)>>}
    /\ UNCHANGED << selected_emails, picked, pc, fault, files, session_folder,
                    preserve_structure, skip_existing, modal, pending >>
    /\ UNCHANGED connVars
    /\ UNCHANGED loadVars
    /\ UNCHANGED expVars
    /\ UNCHANGED callVars

\* clear_search: the Clear button.
ClearSearch ==
    /\ pc = "idle"
    /\ search_input' = <<>>
    /\ table' = UpdateEmailTable(emails, selected_emails)
    /\ UNCHANGED << emails, selected_emails, picked, pc, notes, fault, files,
                    session_folder, preserve_structure, skip_existing, modal,
                    search_field, pending >>
    /\ UNCHANGED connVars
    /\ UNCHANGED loadVars
    /\ UNCHANGED expVars
    /\ UNCHANGED callVars

\* ---------------------------------------------------------------- preview

\* The raw message the server returns for uid in the selected folder.
RawEmail(folder, uid) == <<folder, uid>>

\* preview_email: the Preview button with the table cursor on cursor_row
\* (0-based).  The message is fetched in full and shown in the modal.
PreviewEmail(cursor_row, selR, fetchR) ==
    /\ pc = "idle"
    /\ 0 <= cursor_row /\ cursor_row < Len(emails)
    /\ current_connection # 0
    /\ LET email_msg == emails[cursor_row + 1]
           shown     == Passed(selR) /\ Passed(fetchR)
           raised    == selR = "RAISE" \/ (Passed(selR) /\ fetchR = "RAISE")
       IN  /\ selR \in SelectResults(email_msg.folder)
           /\ fetchR \in {"OK", "NO", "RAISE"}
           /\ selR # "OK" => fetchR = "OK"
           /\ session_folder' = IF selR = "OK" THEN email_msg.folder ELSE session_folder
           /\ last_select' = <<email_msg.folder, selR>>
           /\ call_log' = IF Passed(selR)
                          THEN call_log \cup {<<"preview", email_msg.folder, last_select'>>}
                          ELSE call_log
           /\ UNCHANGED eml_written
           /\ emails' = IF shown
                        THEN [emails EXCEPT ![cursor_row + 1].raw_email =
                                 Some(RawEmail(email_msg.folder, email_msg.uid))]
                        ELSE emails
           /\ modal' = IF shown THEN Some(<<email_msg.folder, email_msg.uid>>) ELSE modal
           /\ notes' = IF raised THEN notes \cup {<<"error", "Error fetching email">>}
                       ELSE notes
    /\ UNCHANGED << table, selected_emails, picked, pc, fault, files,
                    preserve_structure, skip_existing, search_input, search_field,
                    pending >>
    /\ UNCHANGED connVars
    /\ UNCHANGED loadVars
    /\ UNCHANGED expVars

\* EmailPreviewModal.close_modal: the Close button dismisses the modal.
CloseModal ==
    /\ modal # Absent
    /\ modal' = Absent
    /\ UNCHANGED << emails, table, selected_emails, picked, pc, notes, fault, files,
                    session_folder, preserve_structure, skip_existing, search_input, search_field,
                    pending >>
    /\ UNCHANGED connVars
    /\ UNCHANGED loadVars
    /\ UNCHANGED expVars
    /\ UNCHANGED callVars

\* -------------------------------------------------------- Export Pipeline

SubjectCut == 50

Alnum == {"a", "b", "c", "d", "e", "f", "g", "h", "i", "j", "k", "l", "m", "n", "o",
          "p", "q", "r", "s", "t", "u", "v", "w", "x", "y", "z",
          "A", "B", "C", "D", "E", "F", "G", "H", "I", "J", "K", "L", "M", "N", "O",
          "P", "Q", "R", "S", "T", "U", "V", "W", "X", "Y", "Z",
          "0", "1", "2", "3", "4", "5", "6", "7", "8", "9"}

IsSafeChar(c) == c \in Alnum \cup {" ", "-", "_"}

\* "".join(c for c in subject if c.isalnum() or c in " -_")[:50]
SafeSubject(subject) ==
    LET kept == SelectSeq(subject, IsSafeChar)
    IN  SubSeq(kept, 1, IF Len(kept) < SubjectCut THEN Len(kept) ELSE SubjectCut)

\* folder_path / f"{uid}_{safe_subject}.eml"; the directory is the folder
\* below download_dir, or download_dir itself (the empty path).
EmlPath(email_msg, preserve) ==
    [kind |-> "eml",
     dir  |-> IF preserve THEN email_msg.folder ELSE NoFolder,
     name |-> <<email_msg.uid, SafeSubject(email_msg.subject)>>]

\* download_dir / f"{folder.replace('/', '_')}.mbox"
RECURSIVE JoinUnderscore(_)
JoinUnderscore(folder) ==
    IF Len(folder) <= 1 THEN folder
    ELSE <<folder[1], "_">> \o JoinUnderscore(Tail(folder))

MboxPath(folder) == [kind |-> "mbox", dir |-> NoFolder, name |-> JoinUnderscore(folder)]

JsonPath == [kind |-> "json", dir |-> NoFolder, name |-> <<"emails.json">>]
CsvPath == [kind |-> "csv", dir |-> NoFolder, name |-> <<"emails.csv">>]

\* extract_body_for_export(msg), as the message it was taken from
ExtractBodyForExport(raw_email) == <<"body", raw_email>>

\* [e for e in self.emails if e.uid in self.selected_emails]
SelectedEmails(es, sel) == SelectSeq(es, LAMBDA e : e.uid \in sel)

\* The keys of folder_emails in insertion order.
RECURSIVE FolderKeys(_, _)
FolderKeys(es, seen) ==
    IF es = <<>> THEN <<>>
    ELSE IF Head(es).folder \in seen THEN FolderKeys(Tail(es), seen)
    ELSE <<Head(es).folder>> \o FolderKeys(Tail(es), seen \cup {Head(es).folder})

\* Mutant of FolderEmails: the second pass takes only the messages the
\* per-message loop fetched.
FolderEmails_FetchedOnly(es, folder) ==
    SelectSeq(es, LAMBDA e : /\ e.folder = folder
                             /\ \E i \in 1 .. Len(exp_out) :
                                    exp_sel[i] = e /\ exp_out[i] = "ok")


\* folder_emails[folder]
FolderEmails(es, folder) == SelectSeq(es, LAMBDA e : e.folder = folder)

JsonRecord(email_msg, raw_email) ==
    [uid |-> email_msg.uid, subject |-> email_msg.subject, from |-> email_msg.sender,
     date |-> email_msg.date, folder |-> email_msg.folder, size |-> email_msg.size,
     body |-> ExtractBodyForExport(raw_email)]

CsvRecord(email_msg) ==
    [UID |-> email_msg.uid, Subject |-> email_msg.subject, From |-> email_msg.sender,
     Date |-> email_msg.date, Folder |-> email_msg.folder, Size |-> email_msg.size]

\* Mutant of Accumulate: the new record is put in front.
Accumulate_Front(data, record) == <<record>> \o data

\* json_data.append(...), csv_data.append(...), mbox.add(msg)
Accumulate(data, record) == Append(data, record)

\* csv_data[0].keys(), in the order the keys are inserted
CsvFieldnames == <<"UID", "Subject", "From", "Date", "Folder", "Size">>

\* emails.csv: writer.writeheader(), then writer.writerows(csv_data)
CsvFile(rows) == <<CsvFieldnames>> \o rows

\* Mutant of WritesRecords: the file is written also when no record was
\* accumulated.
WritesRecords_Always(fmt, fmts, data) == fmt \in fmts

\* if "JSON" in formats and json_data / if "CSV" in formats and csv_data
WritesRecords(fmt, fmts, data) == fmt \in fmts /\ data # <<>>

\* The count download_emails reports on completion.
ReportedTotal(sel) == Len(sel)

\* Mutant of NextExportIdx: a failed message ends the per-message loop.
NextExportIdx_Abort(idx, outcome, total) == IF outcome = "ok" THEN idx + 1 ELSE total

\* The per-message loop goes on to the next message whatever happened:
\* enumerate(selected_emails), with the try/except inside the loop body.
NextExportIdx(idx, outcome, total) == idx + 1

\* An unhandled exception leaves the worker: the application stops.
Crash(what) ==
    /\ fault' = what
    /\ pc' = "crashed"

\* download_selected + download_emails up to the per-message loop.
\* fmts are the checked formats, mkdirR the result of download_dir.mkdir.
DownloadSelected(fmts, mkdirR) ==
    /\ pc = "idle"
    /\ selected_emails # {}
    /\ fmts # {}
    /\ formats' = fmts
    /\ notes' = {}
    /\ IF mkdirR = "raise"
       THEN /\ Crash("download_dir.mkdir")
            /\ UNCHANGED << exp_sel, mbox_todo >>
       ELSE /\ exp_sel' = SelectedEmails(emails, selected_emails)
            /\ mbox_todo' = FolderKeys(exp_sel', {})
            /\ pc' = "export"
            /\ UNCHANGED fault
    /\ UNCHANGED << exp_idx, exp_out, json_data, csv_data, mbox_idx, mbox_open,
                    mbox_out, fetch_log >>
    /\ UNCHANGED << emails, table, selected_emails, picked, session_folder, files >>
    /\ UNCHANGED connVars
    /\ UNCHANGED uiVars
    /\ UNCHANGED pending
    /\ UNCHANGED callVars
    /\ UNCHANGED loadVars

\* Results of the processing of a fetched message: "raise" is an exception
\* before the EML write (folder_path.mkdir) or in mbox.add, "write" one in
\* open(filepath, "wb") / f.write(raw_email).
ProcResults == Results \cup {"write"}

\* The outcome of one select + fetch + processing of a message.
Outcome(selR, fetchR, procR) ==
    IF selR = "RAISE" THEN "selRAISE"
    ELSE IF ~StatusOk(selR) THEN "selNO"
    ELSE IF fetchR = "RAISE" THEN "fetchRAISE"
    ELSE IF ~StatusOk(fetchR) THEN "fetchNO"
    ELSE IF procR = "raise" THEN "procRAISE"
    ELSE IF procR = "write" THEN "writeRAISE"
    ELSE "ok"

Raised(outcome) == outcome \in {"selRAISE", "fetchRAISE", "procRAISE", "writeRAISE"}

\* Mutant of WritesEml: an existing file is written again.
WritesEml_Always(email_msg) == "EML" \in formats

\* The first-pass body touches the file system (and so can raise there)
\* when it creates the folder directory or writes the EML file.
WritesEml(email_msg) ==
    /\ "EML" \in formats
    /\ (EmlPath(email_msg, preserve_structure) \notin DOMAIN files \/ ~skip_existing)

TouchesFiles(email_msg) == preserve_structure \/ WritesEml(email_msg)

\* One iteration of the per-message loop of download_emails.
ExportMessage(selR, fetchR, procR) ==
    /\ pc = "export"
    /\ exp_idx < Len(exp_sel)
    /\ LET email_msg == exp_sel[exp_idx + 1]
           outcome   == Outcome(selR, fetchR, procR)
           raw_email == RawEmail(email_msg.folder, email_msg.uid)
       IN  /\ selR \in SelectResults(email_msg.folder)
           /\ fetchR \in {"OK", "NO", "RAISE"}
           /\ selR # "OK" => fetchR = "OK"
           /\ procR \in ProcResults
           /\ (selR # "OK" \/ fetchR # "OK" \/ ~TouchesFiles(email_msg)) => procR = "ok"
           /\ procR = "raise" => preserve_structure
           /\ procR = "write" => WritesEml(email_msg)
           /\ session_folder' = IF selR = "OK" THEN email_msg.folder ELSE session_folder
           /\ last_select' = <<email_msg.folder, selR>>
           /\ fetch_log' = IF Passed(selR)
                           THEN fetch_log \cup {<<session_folder', email_msg.uid, 1>>}
                           ELSE fetch_log
           /\ call_log' = IF Passed(selR)
                          THEN call_log \cup {<<"uid fetch", email_msg.folder, last_select'>>}
                          ELSE call_log
           /\ files' = IF outcome = "ok" /\ WritesEml(email_msg)
                       THEN (EmlPath(email_msg, preserve_structure) :> raw_email) @@ files
                       ELSE files
           /\ eml_written' = IF outcome = "ok" /\ WritesEml(email_msg)
                             THEN eml_written \cup {EmlPath(email_msg, preserve_structure)}
                             ELSE eml_written
           /\ json_data' = IF outcome = "ok" /\ "JSON" \in formats
                           THEN Accumulate(json_data, JsonRecord(email_msg, raw_email))
                           ELSE json_data
           /\ csv_data' = IF outcome = "ok" /\ "CSV" \in formats
                          THEN Accumulate(csv_data, CsvRecord(email_msg))
                          ELSE csv_data
           /\ notes' = IF Raised(outcome)
                       THEN notes \cup {<<"error", "Error downloading email", email_msg.uid>>}
                       ELSE notes
           /\ exp_out' = Append(exp_out, outcome)
           /\ exp_idx' = NextExportIdx(exp_idx, outcome, Len(exp_sel))
    /\ UNCHANGED << formats, exp_sel, mbox_todo, mbox_idx, mbox_open, mbox_out >>
    /\ UNCHANGED << emails, table, selected_emails, picked, pc, fault >>
    /\ UNCHANGED connVars
    /\ UNCHANGED uiVars
    /\ UNCHANGED pending
    /\ UNCHANGED loadVars

LoopDone == pc = "export" /\ exp_idx >= Len(exp_sel)

\* mailbox.mbox(str(mbox_path)) for the next folder of folder_emails.
MboxOpen(openR) ==
    /\ LoopDone
    /\ "MBOX" \in formats
    /\ mbox_open = NoFolder
    /\ mbox_todo # <<>>
    /\ IF openR = "raise"
       THEN /\ Crash("mailbox.mbox")
            /\ UNCHANGED << mbox_open, files >>
       ELSE /\ mbox_open' = Head(mbox_todo)
            /\ files' = IF MboxPath(Head(mbox_todo)) \in DOMAIN files THEN files
                        ELSE (MboxPath(Head(mbox_todo)) :> <<>>) @@ files
            /\ UNCHANGED << pc, fault >>
    /\ mbox_idx' = 0
    /\ UNCHANGED << formats, exp_sel, exp_idx, exp_out, json_data, csv_data, mbox_todo,
                    mbox_out, fetch_log >>
    /\ UNCHANGED << emails, table, selected_emails, picked, session_folder, notes >>
    /\ UNCHANGED connVars
    /\ UNCHANGED uiVars
    /\ UNCHANGED pending
    /\ UNCHANGED callVars
    /\ UNCHANGED loadVars

\* One iteration of the loop over the emails of the open mbox's folder.
MboxAdd(selR, fetchR, procR) ==
    /\ LoopDone
    /\ mbox_open # NoFolder
    /\ mbox_idx < Len(FolderEmails(exp_sel, mbox_open))
    /\ LET email_msg == FolderEmails(exp_sel, mbox_open)[mbox_idx + 1]
           outcome   == Outcome(selR, fetchR, procR)
       IN  /\ selR \in SelectResults(email_msg.folder)
           /\ fetchR \in {"OK", "NO", "RAISE"}
           /\ selR # "OK" => fetchR = "OK"
           /\ procR \in Results
           /\ (selR # "OK" \/ fetchR # "OK") => procR = "ok"
           /\ session_folder' = IF selR = "OK" THEN email_msg.folder ELSE session_folder
           /\ last_select' = <<email_msg.folder, selR>>
           /\ fetch_log' = IF Passed(selR)
                           THEN fetch_log \cup {<<session_folder', email_msg.uid, 2>>}
                           ELSE fetch_log
           /\ call_log' = IF Passed(selR)
                          THEN call_log \cup {<<"uid fetch 2", email_msg.folder, last_select'>>}
                          ELSE call_log
           /\ UNCHANGED eml_written
           /\ files' = IF outcome = "ok"
                       THEN [files EXCEPT ![MboxPath(mbox_open)] =
                                Accumulate(@, RawEmail(email_msg.folder, email_msg.uid))]
                       ELSE files
           /\ notes' = IF Raised(outcome)
                       THEN notes \cup {<<"error", "Error adding to MBOX", email_msg.uid>>}
                       ELSE notes
           /\ mbox_out' = Append(mbox_out, <<email_msg.folder, email_msg.uid, outcome>>)
    /\ mbox_idx' = mbox_idx + 1
    /\ UNCHANGED << formats, exp_sel, exp_idx, exp_out, json_data, csv_data, mbox_todo,
                    mbox_open >>
    /\ UNCHANGED << emails, table, selected_emails, picked, pc, fault >>
    /\ UNCHANGED connVars
    /\ UNCHANGED uiVars
    /\ UNCHANGED pending
    /\ UNCHANGED loadVars

\* mbox.close() after the folder's emails.
MboxClose(closeR) ==
    /\ LoopDone
    /\ mbox_open # NoFolder
    /\ mbox_idx = Len(FolderEmails(exp_sel, mbox_open))
    /\ IF closeR = "raise"
       THEN /\ Crash("mbox.close")
            /\ UNCHANGED << mbox_open, mbox_todo >>
       ELSE /\ mbox_open' = NoFolder
            /\ mbox_todo' = Tail(mbox_todo)
            /\ UNCHANGED << pc, fault >>
    /\ UNCHANGED << formats, exp_sel, exp_idx, exp_out, json_data, csv_data, mbox_idx,
                    mbox_out, fetch_log >>
    /\ UNCHANGED << emails, table, selected_emails, picked, session_folder,
                    notes, files >>
    /\ UNCHANGED connVars
    /\ UNCHANGED uiVars
    /\ UNCHANGED pending
    /\ UNCHANGED callVars
    /\ UNCHANGED loadVars

\* The end of download_emails: emails.json, emails.csv, the summary.
ExportFinish(jsonR, csvR) ==
    /\ LoopDone
    /\ mbox_open = NoFolder
    /\ "MBOX" \in formats => mbox_todo = <<>>
    /\ LET writesJson == WritesRecords("JSON", formats, json_data)
           writesCsv  == WritesRecords("CSV", formats, csv_data)
           afterJson  == IF writesJson /\ jsonR = "ok"
                         THEN (JsonPath :> json_data) @@ files ELSE files
       IN  /\ ~writesJson => jsonR = "ok"
           /\ (~writesCsv \/ jsonR = "raise") => csvR = "ok"
           /\ IF writesJson /\ jsonR = "raise"
              THEN /\ Crash("emails.json")
                   /\ UNCHANGED << files, notes >>
              ELSE IF writesCsv /\ csvR = "raise"
              THEN /\ Crash("emails.csv")
                   /\ files' = afterJson
                   /\ UNCHANGED notes
              ELSE /\ files' = IF writesCsv THEN (CsvPath :> CsvFile(csv_data)) @@ afterJson
                               ELSE afterJson
                   /\ notes' = notes \cup {<<"info", "Downloaded", ReportedTotal(exp_sel)>>}
                   /\ pc' = "exp_done"
                   /\ UNCHANGED fault
    /\ UNCHANGED << emails, table, selected_emails, picked, session_folder >>
    /\ UNCHANGED expVars
    /\ UNCHANGED connVars
    /\ UNCHANGED uiVars
    /\ UNCHANGED pending
    /\ UNCHANGED callVars
    /\ UNCHANGED loadVars

\* The worker returns: its local variables go out of scope.
WorkerDone ==
    /\ pc \in {"connect_done", "load_done", "exp_done"}
    /\ pc' = "idle"
    /\ notes' = {}
    /\ conn_log' = NoConnLog
    /\ ld_folder' = NoFolder
    /\ ld_idx' = 0
    /\ ld_log' = <<>>
    /\ formats' = {}
    /\ exp_sel' = <<>>
    /\ exp_idx' = 0
    /\ exp_out' = <<>>
    /\ json_data' = <<>>
    /\ csv_data' = <<>>
    /\ mbox_todo' = <<>>
    /\ mbox_idx' = 0
    /\ mbox_open' = NoFolder
    /\ mbox_out' = <<>>
    /\ fetch_log' = {}
    /\ last_select' = NoSelect
    /\ call_log' = {}
    /\ eml_written' = {}
    /\ UNCHANGED << current_account, current_connection, conn_state, session_folder,
                    tree, emails, table, selected_emails, picked, files, fault >>
    /\ UNCHANGED uiVars
    /\ UNCHANGED pending


\* --------------------------------------------------------- specifications

CallStatus == {"OK", "NO", "RAISE"}

\* The session: one account whose server answers LIST with SessionListing,
\* the export settings left at their defaults (EML only), a file system
\* that does not fail.
Next ==
    \/ \E loginR \in Results :
           ConnectToAccount("ok", "ok", loginR, [status |-> "OK", folders |-> SessionListing])
    \/ \E n \in 0 .. Len(SessionListing), selR, searchR \in CallStatus :
           FolderSelected(n, selR, searchR)
    \/ \E kind \in {"ok", "noUID", "NO", "RAISE"} : LoadFetch(kind)
    \/ LoadFinish
    \/ \E i \in 0 .. MaxMsgs - 1 : EmailRowSelected(i)
    \/ SelectAllEmails
    \/ DeselectAllEmails
    \/ DownloadSelected({"EML"}, "ok")
    \/ \E selR, fetchR \in CallStatus : ExportMessage(selR, fetchR, "ok")
    \/ ExportFinish("ok", "ok")
    \/ WorkerDone

Spec == Init /\ [][Next]_vars

\* The message index alone: connect, folder loads and the selection
\* handlers, which are all that write self.emails and the displayed table.
NextIndex ==
    \/ \E loginR \in Results :
           ConnectToAccount("ok", "ok", loginR, [status |-> "OK", folders |-> SessionListing])
    \/ \E n \in 0 .. Len(SessionListing), selR, searchR \in CallStatus :
           FolderSelected(n, selR, searchR)
    \/ \E kind \in {"ok", "noUID", "NO", "RAISE"} : LoadFetch(kind)
    \/ LoadFinish
    \/ \E i \in 0 .. MaxMsgs - 1 : EmailRowSelected(i)
    \/ SelectAllEmails
    \/ DeselectAllEmails
    \/ WorkerDone

SpecIndex == Init /\ [][NextIndex]_vars

\* The connection and the folder catalog: every result of logout, of the
\* transport, of login and of list(), with every LIST response of at most
\* MaxLines lines.
ListResults ==
    {[status |-> "OK", folders |-> l] : l \in TreeListings}
        \cup {[status |-> st, folders |-> <<>>] : st \in {"NO", "RAISE"}}

NextConnect ==
    \/ \E logoutR, openR, loginR \in Results, listR \in ListResults :
           /\ current_connection = 0 => logoutR = "ok"
           /\ logoutR = "raise" => openR = "ok"
           /\ openR = "raise" => loginR = "ok"
           /\ loginR = "raise" => listR = [status |-> "NO", folders |-> <<>>]
           /\ ConnectToAccount(logoutR, openR, loginR, listR)
    \/ WorkerDone

SpecConnect == Init /\ [][NextConnect]_vars

\* One export batch from the button to its end: folder A is loaded in full,
\* any part of it is selected, the connection is the authenticated one or
\* has been logged out by a reconnect that failed; every format set, every
\* result of every call.
LoadedFolder == <<"A">>

LoadedEmails ==
    [i \in 1 .. MaxMsgs |-> NewEmailMessage(FetchPrefix(i, "ok"), i, LoadedFolder)]

InitExport ==
    /\ current_account = "acct"
    /\ current_connection = 1
    /\ conn_state \in {[h \in 1 .. MaxConn |-> IF h = 1 THEN st ELSE "unborn"] :
                          st \in {"auth", "closed"}}
    /\ session_folder = LoadedFolder
    /\ tree = LoadFolders([status |-> "OK", folders |-> SessionListing])
    /\ emails = LoadedEmails
    /\ selected_emails \in SUBSET UIDs
    /\ table = UpdateEmailTable(emails, selected_emails)
    /\ picked = {<<LoadedFolder, u>> : u \in selected_emails}
    /\ pc = "idle"
    /\ notes = {}
    /\ conn_log = NoConnLog
    /\ ld_folder = NoFolder
    /\ ld_idx = 0
    /\ ld_log = <<>>
    /\ formats = {}
    /\ exp_sel = <<>>
    /\ exp_idx = 0
    /\ exp_out = <<>>
    /\ json_data = <<>>
    /\ csv_data = <<>>
    /\ mbox_todo = <<>>
    /\ mbox_idx = 0
    /\ mbox_open = NoFolder
    /\ mbox_out = <<>>
    /\ fetch_log = {}
    /\ files = EmptyFn
    /\ preserve_structure = TRUE
    /\ skip_existing = TRUE
    /\ modal = Absent
    /\ search_input = <<>>
    /\ search_field = "All"
    /\ pending = Absent
    /\ last_select = NoSelect
    /\ call_log = {}
    /\ eml_written = {}
    /\ fault = None

NextExport ==
    \/ \E fmts \in SUBSET Formats, mkdirR \in Results : DownloadSelected(fmts, mkdirR)
    \/ \E selR, fetchR \in CallStatus, procR \in ProcResults :
           ExportMessage(selR, fetchR, procR)
    \/ \E openR \in Results : MboxOpen(openR)
    \/ \E selR, fetchR \in CallStatus, procR \in Results : MboxAdd(selR, fetchR, procR)
    \/ \E closeR \in Results : MboxClose(closeR)
    \/ \E jsonR, csvR \in Results : ExportFinish(jsonR, csvR)

SpecExport == InitExport /\ [][NextExport]_vars

\* The protocol calls of one operation started from the loaded folder: a
\* folder load, previews, or an export batch to MBOX (which fetches every
\* message in both passes), with every result of every select, search and
\* fetch and a file system that does not fail.
NextCalls ==
    \/ \E n \in 0 .. Len(SessionListing), selR, searchR \in CallStatus :
           FolderSelected(n, selR, searchR)
    \/ \E kind \in {"ok", "noUID", "NO", "RAISE"} : LoadFetch(kind)
    \/ LoadFinish
    \/ \E i \in 0 .. MaxMsgs - 1, selR, fetchR \in CallStatus : PreviewEmail(i, selR, fetchR)
    \/ CloseModal
    \/ DownloadSelected({"MBOX"}, "ok")
    \/ \E selR, fetchR \in CallStatus : ExportMessage(selR, fetchR, "ok")
    \/ MboxOpen("ok")
    \/ \E selR, fetchR \in CallStatus : MboxAdd(selR, fetchR, "ok")
    \/ MboxClose("ok")
    \/ ExportFinish("ok", "ok")

SpecCalls == InitExport /\ [][NextCalls]_vars

\* Folder loads with the user selecting nodes at any time, also while a
\* load is running.
NextEvents ==
    \/ \E loginR \in Results :
           ConnectToAccount("ok", "ok", loginR, [status |-> "OK", folders |-> SessionListing])
    \/ \E n \in 0 .. Len(SessionListing) : PostNodeSelected(n)
    \/ \E n \in 0 .. Len(SessionListing), selR, searchR \in CallStatus :
           FolderSelected(n, selR, searchR)
    \/ \E kind \in {"ok", "noUID", "NO", "RAISE"} : LoadFetch(kind)
    \/ LoadFinish
    \/ WorkerDone

SpecEvents == Init /\ [][NextEvents]_vars

\* Search over the loaded folder: any term of SearchTerms in any field,
\* between selection changes.
SearchTerms == {<<>>, <<"h">>, <<"I">>, <<"e">>, <<"a", "@">>, <<"K">>, <<"z">>}

NextSearch ==
    \/ \E search_term \in SearchTerms, field \in SearchFields :
           SearchEmails(search_term, field)
    \/ ClearSearch
    \/ \E i \in 0 .. MaxMsgs - 1 : EmailRowSelected(i)
    \/ SelectAllEmails
    \/ DeselectAllEmails

SpecSearch == InitExport /\ [][NextSearch]_vars

\* Repeated export batches of the loaded folder to EML, the settings at
\* their defaults (skip existing files), with every result of select and
\* fetch and a file write that can fail; rows may be toggled between
\* batches.
NextRerun ==
    \/ DownloadSelected({"EML"}, "ok")
    \/ \E selR, fetchR \in CallStatus, procR \in {"ok", "write"} :
           ExportMessage(selR, fetchR, procR)
    \/ ExportFinish("ok", "ok")
    \/ WorkerDone
    \/ \E i \in 0 .. MaxMsgs - 1 : EmailRowSelected(i)

SpecRerun == InitExport /\ [][NextRerun]_vars

\* ------------------------------------------------------------- properties

OneFolder(rows) == \A i, j \in 1 .. Len(rows) : rows[i].folder = rows[j].folder

InBatch(folder, uid) ==
    \E i \in 1 .. Len(exp_sel) : exp_sel[i].uid = uid /\ exp_sel[i].folder = folder

FailedFetch == {"selNO", "selRAISE", "fetchNO", "fetchRAISE"}

\* C1: when the only anomaly among the header-fetch responses of a load is a
\* prefix without UID token, the load still processes every response and the
\* table holds exactly the well-formed ones.
C1_NoUidResponseSkipped ==
    (/\ pc = "load_done"
     /\ ld_log # <<>>
     /\ \A i \in 1 .. Len(ld_log) : ld_log[i] \in {"ok", "noUID"})
    => /\ Len(ld_log) = Total
       /\ Len(emails) = Cardinality({i \in 1 .. Len(ld_log) : ld_log[i] = "ok"})
       /\ <<"error", "Error loading emails">> \notin notes

\* C2: a pair the user selected in folder A, whose UID is still in the
\* selection after a different folder B was loaded and displayed, is in the
\* export batch under folder A, and every raw fetch is issued with the recorded folder of
\* its message selected on the session.
C2_ExportUsesRecordedFolder ==
    pc \in {"export", "exp_done"}
    => /\ \A pr \in picked :
              (/\ pr[2] \in selected_emails
               /\ emails # <<>> /\ emails[1].folder # pr[1]
               /\ table = UpdateEmailTable(emails, selected_emails))
              => InBatch(pr[1], pr[2])
       /\ \A fl \in fetch_log : InBatch(fl[1], fl[2])

\* C3: only pairs (folder, uid) the user selected are marked in the table
\* or fetched by an export.
C3_SelectionKeyedByFolderUid ==
    /\ \A i \in 1 .. Len(table) :
           table[i].mark => <<table[i].folder, table[i].uid>> \in picked
    /\ \A fl \in fetch_log : <<fl[1], fl[2]>> \in picked

\* C4: in an export batch every selected message is attempted whatever
\* happened to the others, and every message whose own select, fetch and
\* processing succeeded is in every requested format; on completion
\* emails.json and emails.csv hold the accumulated records and every
\* message was attempted again for its folder's mbox file.
C4_FailureSkipsOnlyThatMessage ==
    pc \in {"export", "exp_done"}
    => /\ Len(exp_out) = exp_idx
       /\ exp_idx <= Len(exp_sel)
       /\ \A i \in 1 .. Len(exp_out) :
              /\ exp_out[i] \notin {"selNO", "selRAISE"}
                 => <<exp_sel[i].folder, exp_sel[i].uid, 1>> \in fetch_log
              /\ exp_out[i] = "ok"
                 => /\ "EML" \in formats
                       => EmlPath(exp_sel[i], preserve_structure) \in DOMAIN files
                    /\ "JSON" \in formats
                       => \E k \in 1 .. Len(json_data) :
                              /\ json_data[k].uid = exp_sel[i].uid
                              /\ json_data[k].folder = exp_sel[i].folder
                    /\ "CSV" \in formats
                       => \E k \in 1 .. Len(csv_data) :
                              /\ csv_data[k].UID = exp_sel[i].uid
                              /\ csv_data[k].Folder = exp_sel[i].folder
       /\ \A k \in 1 .. Len(mbox_out) :
              mbox_out[k][3] = "ok"
              => \E n \in 1 .. Len(files[MboxPath(mbox_out[k][1])]) :
                     files[MboxPath(mbox_out[k][1])][n] = RawEmail(mbox_out[k][1], mbox_out[k][2])
       /\ pc = "exp_done"
          => /\ exp_idx = Len(exp_sel)
             /\ "MBOX" \in formats => Len(mbox_out) = Len(exp_sel)
             /\ ("JSON" \in formats /\ json_data # <<>>) => files[JsonPath] = json_data
             /\ ("CSV" \in formats /\ csv_data # <<>>) => files[CsvPath] = CsvFile(csv_data)

\* C4 witness: a completed batch with all four formats whose first message
\* failed at select or fetch and whose second message succeeded.
C4_Witness ==
    /\ pc = "exp_done"
    /\ formats = Formats
    /\ Len(exp_out) = 2
    /\ exp_out[1] \in FailedFetch
    /\ exp_out[2] = "ok"
    /\ \E k \in 1 .. Len(mbox_out) : mbox_out[k][3] = "ok"

\* C5: every message the completed batch skipped because its select or fetch
\* failed has an error notification.
C5_SkippedMessagesNotified ==
    pc = "exp_done"
    => \A i \in 1 .. Len(exp_out) :
           exp_out[i] \in FailedFetch
           => <<"error", "Error downloading email", exp_sel[i].uid>> \in notes

\* C6: the count reported on completion is the number of messages whose raw
\* fetch succeeded and that were processed.
C6_ReportedCountIsProcessed ==
    pc = "exp_done"
    => <<"info", "Downloaded", Cardinality({i \in 1 .. Len(exp_out) : exp_out[i] = "ok"})>>
           \in notes

\* C7: when the logout of the prior connection raises, the new transport is
\* still opened; after a successful login the current connection is the new,
\* authenticated one.
C7_LogoutFailureSwallowed ==
    pc = "connect_done"
    => /\ conn_log.logout = "raise" => conn_log.opened
       /\ conn_log.login = "ok"
          => /\ current_connection # conn_log.prior
             /\ conn_state[current_connection] = "auth"

ParentPath(path) == SubSeq(path, 1, Len(path) - 1)

\* Node i lies below node j in the tree.
RECURSIVE IsDescendant(_, _)
IsDescendant(i, j) ==
    /\ tree[i].parent # 0
    /\ (tree[i].parent = j \/ IsDescendant(tree[i].parent, j))

\* C8: every reported path is the path of exactly one node, and the node of
\* a path with "/" lies below a node of its parent path whenever the parent
\* path was reported.
C8_TreeWellFormed ==
    /\ \A i, j \in 1 .. Len(tree) : tree[i].path = tree[j].path => i = j
    /\ \A i \in 1 .. Len(tree) :
           (/\ Len(tree[i].path) > 1
            /\ \E j \in 1 .. Len(tree) : tree[j].path = ParentPath(tree[i].path))
           => \E j \in 1 .. Len(tree) :
                  tree[j].path = ParentPath(tree[i].path) /\ IsDescendant(i, j)

\* C9: all records of self.emails carry one folder value, and so do all rows
\* of the displayed table.
C9_TableOneFolder == OneFolder(emails) /\ OneFolder(table)

\* C9 witness: a load of one folder was aborted by an error after records
\* were appended, while the displayed rows are still those of another folder.
C9_Witness ==
    /\ pc = "load_done"
    /\ <<"error", "Error loading emails">> \in notes
    /\ emails # <<>>
    /\ table # <<>>
    /\ table[1].folder # emails[1].folder

\* C10: no exception leaves download_emails unhandled.
C10_NoUnhandledFault == fault = None

\* C11: a message whose EML write failed still has its JSON and CSV records
\* accumulated, and on completion written to emails.json and emails.csv; the
\* messages after it are still attempted.
C11_WriteFailureOnlyThatTarget ==
    pc \in {"export", "exp_done"}
    => \A i \in 1 .. Len(exp_out) :
           exp_out[i] = "writeRAISE"
           => /\ "JSON" \in formats
                 => \E k \in 1 .. Len(json_data) :
                        /\ json_data[k].uid = exp_sel[i].uid
                        /\ json_data[k].folder = exp_sel[i].folder
              /\ "CSV" \in formats
                 => \E k \in 1 .. Len(csv_data) :
                        /\ csv_data[k].UID = exp_sel[i].uid
                        /\ csv_data[k].Folder = exp_sel[i].folder
              /\ pc = "exp_done"
                 => /\ exp_idx = Len(exp_sel)
                    /\ "JSON" \in formats => JsonPath \in DOMAIN files
                    /\ "CSV" \in formats => CsvPath \in DOMAIN files

\* C12: every search and fetch issued on the session follows a select of
\* the intended folder that returned OK, and a load whose select did not
\* return OK ends with an error report.
C12_FetchOnlyAfterSelectOk ==
    /\ \A c \in call_log : c[3] = <<c[2], "OK">>
    /\ (pc = "load_done" /\ last_select # NoSelect /\ last_select[2] # "OK")
       => notes \cap {<<"error", "Cannot select folder">>,
                      <<"error", "Error loading emails">>} # {}

\* C12 witness: an export batch ended after a select that failed and raw
\* fetches in both passes, with a preview made before it.
C12_Witness ==
    /\ pc = "exp_done"
    /\ \E i \in 1 .. Len(exp_out) : exp_out[i] = "selNO"
    /\ {c[1] : c \in call_log} = {"preview", "uid fetch", "uid fetch 2"}

\* C13: once the user has started a new folder load while a load is in
\* progress, the older load is superseded: it issues no further session call
\* and changes the message table no further.
C13_NewOperationSupersedes ==
    [][(pending # Absent /\ pc = "load_loop")
       => (call_log' = call_log /\ emails' = emails)]_vars

\* C14: a search, whatever the term and the field, leaves self.emails and
\* the selection set as they were.
C14_SearchKeepsTableAndSelection ==
    [][(\E search_term \in SearchTerms, field \in SearchFields :
            SearchEmails(search_term, field))
       => (emails' = emails /\ selected_emails' = selected_emails)]_vars

\* C14 witness: a search has reduced the displayed rows while a message is
\* selected.
C14_Witness ==
    /\ search_input # <<>>
    /\ Len(table) < Len(emails)
    /\ selected_emails # {}

\* Two characters are the same letter whatever their case.
SameLetter(a, b) ==
    a = b \/ \E i \in 1 .. Len(UpperCase) : {a, b} = {UpperCase[i], LowerCase[i]}

\* term occurs in str, case ignored.
ContainsCI(term, str) ==
    \E i \in 1 .. Len(str) :
        /\ i + Len(term) - 1 <= Len(str)
        /\ \A k \in 1 .. Len(term) : SameLetter(term[k], str[i + k - 1])

C16_ToAndBodyAreNoOps ==
    [][\A search_term \in SearchTerms \ {<<>>}, field \in {"To", "Body"} :
           SearchEmails(search_term, field)
           => table' = UpdateEmailTable(emails, selected_emails)]_vars

\* C17: with skip-existing set, no step of an export writes an .eml file
\* that exists or changes its content, and a message whose file exists and
\* whose select and fetch succeeded raises no error.
C17_RerunKeepsEmlFiles ==
    [][skip_existing
       => /\ \A p \in DOMAIN files :
                 p.kind = "eml"
                 => /\ p \in DOMAIN files'
                    /\ files'[p] = files[p]
                    /\ p \in eml_written' => p \in eml_written
          /\ (/\ pc = "export"
              /\ Len(exp_out') = Len(exp_out) + 1
              /\ EmlPath(exp_sel[Len(exp_out')], preserve_structure) \in DOMAIN files)
             => exp_out'[Len(exp_out')] \notin {"writeRAISE"}]_vars

\* C17 witness: a batch has ended in which a message was fetched whose .eml
\* file an earlier batch had written.
C17_Witness ==
    /\ pc = "exp_done"
    /\ "EML" \in formats
    /\ \E i \in 1 .. Len(exp_out) :
           /\ exp_out[i] = "ok"
           /\ EmlPath(exp_sel[i], preserve_structure) \in DOMAIN files
           /\ EmlPath(exp_sel[i], preserve_structure) \notin eml_written

\* C18: no message whose RFC822.SIZE token is non-numeric is added to
\* self.emails.
C18_NonNumericSizeSkipped ==
    \A i \in 1 .. Len(emails) : IsDigit(ServerSizeToken(emails[i].uid))

\* The messages of the batch whose select, fetch and processing raised
\* nothing and returned OK.
Processed == {i \in 1 .. Len(exp_out) : exp_out[i] = "ok"}

InBatchOrder(keys) ==
    \A k1, k2 \in 1 .. Len(keys) :
        k1 < k2
        => \E i1, i2 \in 1 .. Len(exp_sel) :
               /\ i1 < i2
               /\ <<exp_sel[i1].folder, exp_sel[i1].uid>> = keys[k1]
               /\ <<exp_sel[i2].folder, exp_sel[i2].uid>> = keys[k2]

\* C20: during and after a batch the JSON records, the CSV rows and the
\* messages in each folder's mbox file are in the order in which the batch
\* iterates its messages.
C20_OutputsInBatchOrder ==
    pc \in {"export", "exp_done"}
    => /\ InBatchOrder([k \in 1 .. Len(json_data) |->
                           <<json_data[k].folder, json_data[k].uid>>])
       /\ InBatchOrder([k \in 1 .. Len(csv_data) |->
                           <<csv_data[k].Folder, csv_data[k].UID>>])
       /\ \A p \in DOMAIN files :
              /\ p.kind = "mbox" => InBatchOrder(files[p])
              /\ p.kind = "json"
                 => InBatchOrder([k \in 1 .. Len(files[p]) |->
                                     <<files[p][k].folder, files[p][k].uid>>])
              /\ p.kind = "csv"
                 => InBatchOrder([k \in 1 .. Len(files[p]) - 1 |->
                                     <<files[p][k + 1].Folder, files[p][k + 1].UID>>])

\* C20 witness: a completed batch in all formats with two messages in
\* emails.json, in emails.csv and in the folder's mbox file.
C20_Witness ==
    /\ pc = "exp_done"
    /\ formats = Formats
    /\ Len(json_data) >= 2
    /\ Len(csv_data) >= 2
    /\ Len(files[MboxPath(LoadedFolder)]) >= 2

MboxFiles == {p \in DOMAIN files : p.kind = "mbox"}

BatchFolders == {exp_sel[i].folder : i \in 1 .. Len(exp_sel)}

\* The messages of a folder the second pass appended, in its order.
AppendedTo(folder) ==
    LET added == SelectSeq(mbox_out, LAMBDA o : o[1] = folder /\ o[3] = "ok")
    IN  [k \in 1 .. Len(added) |-> RawEmail(added[k][1], added[k][2])]

\* C21: a completed batch with MBOX requested leaves exactly one mbox file
\* per distinct folder of the selected messages; the second pass selects and
\* fetches every selected message once more, whatever the per-message loop
\* did with it, and a folder's file holds exactly the messages whose second
\* select and fetch succeeded (and whose add raised nothing).
C21_MboxSecondPass ==
    (pc = "exp_done" /\ "MBOX" \in formats)
    => /\ MboxFiles = {MboxPath(f) : f \in BatchFolders}
       /\ Cardinality(MboxFiles) = Cardinality(BatchFolders)
       /\ Len(mbox_out) = Len(exp_sel)
       /\ \A i \in 1 .. Len(exp_sel) :
              Cardinality({k \in 1 .. Len(mbox_out) :
                              /\ mbox_out[k][1] = exp_sel[i].folder
                              /\ mbox_out[k][2] = exp_sel[i].uid}) = 1
       /\ \A k \in 1 .. Len(mbox_out) :
              mbox_out[k][3] \notin {"selNO", "selRAISE"}
              => <<mbox_out[k][1], mbox_out[k][2], 2>> \in fetch_log
       /\ \A f \in BatchFolders : files[MboxPath(f)] = AppendedTo(f)

\* C21 witness: a completed MBOX batch of two messages in which the first
\* message failed in the per-message loop and was appended by the second
\* pass, and the second fetch of the other message failed.
C21_Witness ==
    /\ pc = "exp_done"
    /\ "MBOX" \in formats
    /\ Len(exp_sel) = 2
    /\ exp_out[1] \in FailedFetch
    /\ mbox_out = << <<exp_sel[1].folder, exp_sel[1].uid, "ok">>,
                     <<exp_sel[2].folder, exp_sel[2].uid, "fetchNO">> >>
    /\ files[MboxPath(exp_sel[1].folder)] = <<RawEmail(exp_sel[1].folder, exp_sel[1].uid)>>

\* C22: a load in which header fetches fail (status not OK, or the fetch
\* raised) and every other response is well formed still fetches every id,
\* refreshes the table and completes with the messages that were parsed.
C22_FailedFetchDoesNotAbortLoad ==
    (/\ pc = "load_done"
     /\ ld_log # <<>>
     /\ \A i \in 1 .. Len(ld_log) : ld_log[i] \in {"ok", "NO", "RAISE"}
     /\ \E i \in 1 .. Len(ld_log) : ld_log[i] \in {"NO", "RAISE"})
    => /\ Len(ld_log) = Total
       /\ Len(emails) = Cardinality({i \in 1 .. Len(ld_log) : ld_log[i] = "ok"})
       /\ table = UpdateEmailTable(emails, selected_emails)
       /\ <<"status", "Loaded", Len(emails)>> \in notes

\* Loads (also aborted ones), searches by subject, clear-search and row
\* toggles in any order.
ToggleTerms == {<<>>, <<"e">>, <<"z">>}

NextToggle ==
    \/ ConnectToAccount("ok", "ok", "ok", [status |-> "OK", folders |-> SessionListing])
    \/ \E n \in 0 .. Len(SessionListing), selR, searchR \in CallStatus :
           FolderSelected(n, selR, searchR)
    \/ \E kind \in {"ok", "noUID", "NO", "RAISE"} : LoadFetch(kind)
    \/ LoadFinish
    \/ \E search_term \in ToggleTerms : SearchEmails(search_term, "Subject")
    \/ ClearSearch
    \/ \E i \in 0 .. MaxMsgs - 1 : EmailRowSelected(i)
    \/ WorkerDone

SpecToggle == Init /\ [][NextToggle]_vars

SymDiff(S, T) == (S \ T) \cup (T \ S)

\* C23: a toggle of row i of the displayed table changes the selection
\* membership of the UID displayed in row i and of no other UID.
C23_ToggleChangesDisplayedRow ==
    [][\A i \in 0 .. MaxMsgs - 1 :
           EmailRowSelected(i)
           => SymDiff(selected_emails, selected_emails') = {table[i + 1].uid}]_vars

\* C24: the selection of a tree node starts a load only for a folder node,
\* and the name handed to select on the session is that node's full path.
C24_SelectUsesFullPath ==
    [][\A n \in 0 .. Len(tree) : \A selR, searchR \in CallStatus :
           FolderSelected(n, selR, searchR)
           => /\ n # 0
              /\ last_select'[1] = tree[n].path]_vars

\* C25: the connection handle is set only while it refers to an
\* authenticated session, and a select is issued (by a folder load, a
\* preview or an export) only on an authenticated session.
C25_HandleOnlyWhileAuthenticated ==
    /\ current_connection # 0 => conn_state[current_connection] = "auth"
    /\ last_select # NoSelect => Usable

\* C26: select-all makes the selection exactly the set of UIDs of the
\* loaded messages, so that a UID selected before which is not among them
\* is dropped, and deselect-all makes it empty; both leave the loaded
\* messages as they are.
C26_SelectAllReplaces ==
    [][/\ SelectAllEmails
          => /\ \A i \in 1 .. Len(emails) : emails[i].uid \in selected_emails'
             /\ \A u \in selected_emails' : \E i \in 1 .. Len(emails) : emails[i].uid = u
             /\ emails' = emails
       /\ DeselectAllEmails
          => /\ selected_emails' = {}
             /\ emails' = emails]_vars

\* C26 witness: folder B is loaded with a single message and the selection
\* is exactly that message's UID, every row of the table marked: the state
\* select-all leaves, also when both UIDs of another folder were selected
\* before.
C26_Witness ==
    /\ pc = "idle"
    /\ Len(emails) = 1
    /\ emails[1].folder = <<"B">>
    /\ selected_emails = {emails[1].uid}
    /\ picked = {<<emails[1].folder, emails[1].uid>>}
    /\ Len(table) = 1 /\ table[1].mark

====
